---------------------------- MODULE Spec2Model ----------------------------
(***************************************************************************)
(* Model of the Produto CRUD API (src/main.py, src/schemas.py,             *)
(* src/database.py).                                                       *)
(*                                                                         *)
(* The table "produtos" is a set of rows.  Each HTTP request occupies a    *)
(* worker slot (FastAPI runs the synchronous handlers in a thread pool),   *)
(* owns one SQLAlchemy session and goes through the statements of its      *)
(* handler.  Every statement that reaches the database (a SELECT, or the   *)
(* flush + COMMIT done by db.commit()) is one atomic step; requests        *)
(* interleave between such steps.                                          *)
(*                                                                         *)
(* preco is a float in the code; it is written here in tenths (2.5 ~ 25).  *)
(***************************************************************************)
EXTENDS Integers, FiniteSets, TLC

\* ------------------------------------------------------------ bounds ----

\* largest id the store hands out (Create is refused by the model beyond it)
MaxId == 2

Ids == 1..MaxId

\* the worker threads serving requests: two requests can be in flight at the
\* same time
Reqs == {1, 2}

\* ------------------------------------------------------------- data -----

\* schemas.ProdutoBase: the fields of a request body
Campos == {"nome", "preco", "estoque"}

\* bodies that pass validation (all three fields present and typed)
Payloads ==
  { [nome |-> "Caneta",      preco |-> 25, estoque |-> 100],
    [nome |-> "Caneta Azul", preco |-> 30, estoque |-> 90],
    [nome |-> "Caneta",      preco |-> 25, estoque |-> 90] }

Nomes    == {p.nome : p \in Payloads}
Precos   == {p.preco : p \in Payloads}
Estoques == {p.estoque : p \in Payloads}

\* a row of the table: the generated id and the three data columns
Linha(i, p) ==
  [id |-> i, nome |-> p.nome, preco |-> p.preco, estoque |-> p.estoque]

\* the data columns of a row, as a payload
DadosDe(l) == [nome |-> l.nome, preco |-> l.preco, estoque |-> l.estoque]

Nenhum     == [id |-> 0]
SemDados   == [nome |-> "-"]

\* the detail of the 404 raised by the id-addressed handlers
NaoEncontrado == "Produto não encontrado"
\* the body returned by deletar_produto
Deletado == "Produto deletado com sucesso"

\* responses: status, the entity returned (or Nenhum), the list returned and
\* the message (detail of an error, "mensagem" of Delete)
Resposta(s, e, l, m) == [status |-> s, entidade |-> e, lista |-> l, msg |-> m]
SemResposta == Resposta(0, Nenhum, {}, "")

VARIABLES
  produtos,     \* the table: a set of rows
  pc,           \* per slot: where the request is
  op,           \* per slot: the route of the request
  produto_id,   \* per slot: the path parameter
  dados,        \* per slot: the validated body
  produto,      \* per slot: the instance held by the session
  resposta,     \* per slot: what the handler returned or raised
  db,           \* per slot: the session of get_db
  abertas,      \* sessions currently open on the engine
  hist          \* what a client that sends its requests one after another has seen

vars == <<produtos, pc, op, produto_id, dados, produto, resposta, db, abertas, hist>>

Ops == {"criar", "listar", "obter", "atualizar", "deletar"}

\* ------------------------------------------------------------ store -----

IdsDe(tabela) == {l.id : l \in tabela}

\* the lookup with its filter forgotten: the first row of the table
PrimeiroSemFiltro(tabela, i) ==
  IF tabela = {}
    THEN Nenhum
    ELSE CHOOSE l \in tabela : \A m \in tabela : l.id <= m.id

\* db.query(models.Produto).filter(models.Produto.id == i).first()
Primeiro(tabela, i) ==
  IF \E l \in tabela : l.id = i
    THEN CHOOSE l \in tabela : l.id = i
    ELSE Nenhum

Max(S) == CHOOSE x \in S : \A y \in S : y <= x

\* the id the store gives to an inserted row: an integer primary key of
\* SQLite, one more than the largest id in the table
NextId(tabela) == IF tabela = {} THEN 1 ELSE Max(IdsDe(tabela)) + 1

\* db.add(novo) with no commit: nothing reaches the table
InsertSemCommit(tabela, p) == tabela

\* INSERT INTO produtos (nome, preco, estoque): the store generates the id
Insert(tabela, p) == tabela \cup {Linha(NextId(tabela), p)}

\* the setattr loop: the attributes whose new value differs from the value
\* the lookup loaded; they are what the flush will write
Sujos(carregado, novos) == {c \in Campos : novos[c] # carregado[c]}

\* an update done as delete + insert: the row comes back under a new id
UpdateRecria(tabela, i, novos, sujos) ==
  IF i \in IdsDe(tabela)
    THEN {l \in tabela : l.id # i} \cup {Linha(NextId(tabela), novos)}
    ELSE tabela

\* UPDATE produtos SET <sujos> WHERE id = i
Update(tabela, i, novos, sujos) ==
  { IF l.id = i
      THEN Linha(l.id, [c \in Campos |-> IF c \in sujos THEN novos[c] ELSE l[c]])
      ELSE l : l \in tabela }

\* a flush that merges: it writes the whole instance back, inserting the row
\* when the UPDATE would match nothing
FlushMerge(tabela, carregado, novos) ==
  [ok |-> TRUE,
   tabela |-> {l \in tabela : l.id # carregado.id}
                \cup {Linha(carregado.id, novos)}]

\* The flush of db.commit() in atualizar_produto, for the instance loaded by
\* the lookup: no statement when no attribute changed; otherwise one UPDATE
\* of the changed columns, and StaleDataError (ok = FALSE) when it matches
\* no row.
Flush(tabela, carregado, novos) ==
  LET sujos == Sujos(carregado, novos) IN
  IF sujos = {} THEN [ok |-> TRUE, tabela |-> tabela]
  ELSE IF carregado.id \in IdsDe(tabela)
    THEN [ok |-> TRUE, tabela |-> Update(tabela, carregado.id, novos, sujos)]
    ELSE [ok |-> FALSE, tabela |-> tabela]

\* db.delete(produto) with no commit: the row stays
DeleteSemCommit(tabela, i) == tabela

\* DELETE FROM produtos WHERE id = i (a DELETE that matches no row only
\* warns)
Delete(tabela, i) == {l \in tabela : l.id # i}

\* a list cut to the rows up to id 1
TodosPaginado(tabela) == {l \in tabela : l.id <= 1}

\* db.query(models.Produto).all()
Todos(tabela) == tabela

\* an instance whose attributes were expired by the commit: only its
\* identity is known until it is refreshed
Expirado(i) == [id |-> i]

Erro404 == Resposta(404, Nenhum, {}, NaoEncontrado)
\* an exception no handler catches: the framework answers 500
Erro500 == Resposta(500, Nenhum, {}, "Internal Server Error")

\* obter_produto without its "if not produto" check
ObterSemErro(tabela, i) == Resposta(200, Primeiro(tabela, i), {}, "")

\* the lookup of obter_produto, the 404 when it finds nothing, the entity
\* otherwise
Obter(tabela, i) ==
  LET l == Primeiro(tabela, i) IN
  IF l = Nenhum THEN Erro404 ELSE Resposta(200, l, {}, "")

\* db.refresh(instance); return instance.  The refresh SELECTs the row of
\* the instance's identity and raises InvalidRequestError when it is gone.
Refresh(tabela, i) ==
  LET l == Primeiro(tabela, i) IN
  IF l = Nenhum THEN Erro500 ELSE Resposta(200, l, {}, "")

\* ---------------------------------------------------------- history -----

\* hist follows the requests that were served with no other request in
\* flight; it is emptied when two requests overlap.
SemHist ==
  [ sozinho  |-> FALSE,    \* the request in flight has had no other request beside it
    ultimo   |-> Nenhum,   \* the entity returned by the request that ended last, if it was a Create
    criados  |-> {},       \* ids returned by Create since the last Delete
    nCriados |-> 0 ]       \* the number of those Creates

Init ==
  /\ produtos = {}
  /\ pc = [r \in Reqs |-> "idle"]
  /\ op = [r \in Reqs |-> "-"]
  /\ produto_id = [r \in Reqs |-> 0]
  /\ dados = [r \in Reqs |-> SemDados]
  /\ produto = [r \in Reqs |-> Nenhum]
  /\ resposta = [r \in Reqs |-> SemResposta]
  /\ db = [r \in Reqs |-> "none"]
  /\ abertas = 0
  /\ hist = SemHist

\* ------------------------------------------------------- get_db ---------

EmCurso(r) == pc[r] # "idle"

\* A request arrives on a free worker (the lowest one: the workers are
\* interchangeable) and get_db creates its session, db = SessionLocal(),
\* and yields it to the handler.  The route and the inputs of the request
\* are drawn where the handler first uses them.
Begin(r) ==
  /\ ~EmCurso(r)
  /\ \A q \in Reqs : q < r => EmCurso(q)
  /\ pc' = [pc EXCEPT ![r] = "run"]
  /\ db' = [db EXCEPT ![r] = "open"]
  /\ abertas' = abertas + 1
  /\ hist' = IF \A q \in Reqs : ~EmCurso(q)
               THEN [hist EXCEPT !.sozinho = TRUE]
               ELSE SemHist
  /\ UNCHANGED <<produtos, op, produto_id, dados, produto, resposta>>

\* db.close() written after the yield with no try/finally: it runs only
\* when the handler returns
FechaSoNoRetorno(status) == status = 200

\* the exits of a handler after which the finally clause of get_db closes
\* the session: all of them (return, HTTPException, any other exception)
FechaNaSaida(status) == TRUE

\* The handler has returned or raised; the generator resumes in its finally
\* clause and db.close() runs.  The request is over.
GetDbFinally(r) ==
  /\ pc[r] = "finished"
  /\ LET fecha == FechaNaSaida(resposta[r].status) IN
       /\ db' = [db EXCEPT ![r] = IF fecha THEN "closed" ELSE "open"]
       /\ abertas' = IF fecha THEN abertas - 1 ELSE abertas
  /\ pc' = [pc EXCEPT ![r] = "idle"]
  /\ op' = [op EXCEPT ![r] = "-"]
  /\ produto_id' = [produto_id EXCEPT ![r] = 0]
  /\ resposta' = [resposta EXCEPT ![r] = SemResposta]
  /\ hist' = IF hist.sozinho
               THEN [hist EXCEPT !.ultimo =
                       IF op[r] = "criar" /\ resposta[r].status = 200
                         THEN resposta[r].entidade ELSE Nenhum]
               ELSE hist
  /\ UNCHANGED <<produtos, dados, produto>>

\* the handler of worker r starts: route o, path parameter i, body d
Entra(r, o, i, d) ==
  /\ pc[r] = "run" /\ op[r] = "-"
  /\ op' = [op EXCEPT ![r] = o]
  /\ produto_id' = [produto_id EXCEPT ![r] = i]

\* the handler of worker r ends with response resp
Termina(r, resp) ==
  /\ pc' = [pc EXCEPT ![r] = "finished"]
  /\ resposta' = [resposta EXCEPT ![r] = resp]
  /\ produto' = [produto EXCEPT ![r] = Nenhum]
  /\ dados' = [dados EXCEPT ![r] = SemDados]

\* ------------------------------------------------------- criar_produto --

\* novo = models.Produto(**produto.dict()); db.add(novo); db.commit()
CriarCommit(r, d) ==
  /\ Entra(r, "criar", 0, d)
  /\ NextId(produtos) <= MaxId
  /\ produtos' = Insert(produtos, d)
  /\ produto' = [produto EXCEPT ![r] = Expirado(NextId(produtos))]
  /\ dados' = [dados EXCEPT ![r] = d]
  /\ pc' = [pc EXCEPT ![r] = "committed"]
  /\ UNCHANGED <<resposta, db, abertas, hist>>

\* db.refresh(novo); return novo
CriarRefresh(r) ==
  /\ pc[r] = "committed" /\ op[r] = "criar"
  /\ Termina(r, Refresh(produtos, produto[r].id))
  /\ hist' = IF hist.sozinho /\ Refresh(produtos, produto[r].id).status = 200
               THEN [hist EXCEPT !.criados = @ \cup {produto[r].id},
                                 !.nCriados = @ + 1]
               ELSE hist
  /\ UNCHANGED <<produtos, op, produto_id, db, abertas>>

\* ----------------------------------------------------- listar_produtos --

\* return db.query(models.Produto).all()
ListarQuery(r) ==
  /\ Entra(r, "listar", 0, SemDados)
  /\ Termina(r, Resposta(200, Nenhum, Todos(produtos), ""))
  /\ UNCHANGED <<produtos, db, abertas, hist>>

\* ------------------------------------------------------- obter_produto --

ObterQuery(r, i) ==
  /\ Entra(r, "obter", i, SemDados)
  /\ Termina(r, Obter(produtos, i))
  /\ UNCHANGED <<produtos, db, abertas, hist>>

\* --------------------------------------------------- atualizar_produto --

\* The lookup of atualizar_produto and of deletar_produto: 404 when the row
\* is absent; otherwise the session holds the loaded instance.
Lookup(r, i, d) ==
  LET l == Primeiro(produtos, i) IN
  IF l = Nenhum
    THEN Termina(r, Erro404)
    ELSE /\ produto' = [produto EXCEPT ![r] = l]
         /\ dados' = [dados EXCEPT ![r] = d]
         /\ pc' = [pc EXCEPT ![r] = "found"]
         /\ UNCHANGED resposta

AtualizarLookup(r, i, d) ==
  /\ Entra(r, "atualizar", i, d)
  /\ Lookup(r, i, d)
  /\ UNCHANGED <<produtos, db, abertas, hist>>

\* the setattr loop, then db.commit(): the flush, then COMMIT; all
\* attributes expire
AtualizarCommit(r) ==
  /\ pc[r] = "found" /\ op[r] = "atualizar"
  /\ LET f == Flush(produtos, produto[r], dados[r]) IN
       IF f.ok
         THEN /\ produtos' = f.tabela
              /\ produto' = [produto EXCEPT ![r] = Expirado(produto[r].id)]
              /\ pc' = [pc EXCEPT ![r] = "committed"]
              /\ UNCHANGED <<resposta, dados>>
         ELSE /\ Termina(r, Erro500)
              /\ UNCHANGED produtos
  /\ UNCHANGED <<op, produto_id, db, abertas, hist>>

\* db.refresh(produto); return produto
AtualizarRefresh(r) ==
  /\ pc[r] = "committed" /\ op[r] = "atualizar"
  /\ Termina(r, Refresh(produtos, produto[r].id))
  /\ UNCHANGED <<produtos, op, produto_id, db, abertas, hist>>

\* ----------------------------------------------------- deletar_produto --

DeletarLookup(r, i) ==
  /\ Entra(r, "deletar", i, SemDados)
  /\ Lookup(r, i, SemDados)
  /\ UNCHANGED <<produtos, db, abertas, hist>>

\* db.delete(produto); db.commit(); return the acknowledgment
DeletarCommit(r) ==
  /\ pc[r] = "found" /\ op[r] = "deletar"
  /\ produtos' = Delete(produtos, produto[r].id)
  /\ Termina(r, Resposta(200, Nenhum, {}, Deletado))
  /\ hist' = [hist EXCEPT !.criados = {}, !.nCriados = 0]
  /\ UNCHANGED <<op, produto_id, db, abertas>>

\* ------------------------------------------------------ specification ---

Next ==
  \E r \in Reqs :
    \/ Begin(r)
    \/ \E d \in Payloads : CriarCommit(r, d)
    \/ CriarRefresh(r)
    \/ ListarQuery(r)
    \/ \E i \in Ids : ObterQuery(r, i)
    \/ \E i \in Ids, d \in Payloads : AtualizarLookup(r, i, d)
    \/ AtualizarCommit(r)
    \/ AtualizarRefresh(r)
    \/ \E i \in Ids : DeletarLookup(r, i)
    \/ DeletarCommit(r)
    \/ GetDbFinally(r)

Spec == Init /\ [][Next]_vars

\* ------------------------------------------------------------ steps -----

\* worker r takes a step
Anda(r) == pc'[r] # pc[r]

\* the first statement of the handler of route o runs on worker r
Comeca(r, o) == pc[r] = "run" /\ op'[r] = o

\* the db.commit() of atualizar_produto succeeds on worker r
CommitAtualizar(r) ==
  op[r] = "atualizar" /\ pc[r] = "found" /\ pc'[r] = "committed"

\* the db.commit() of deletar_produto runs on worker r
CommitDeletar(r) ==
  op[r] = "deletar" /\ pc[r] = "found" /\ pc'[r] = "finished"

Ok(e) == Resposta(200, e, {}, "")

\* ------------------------------------------------------------ claims ----

\* C1: a Create served with no other request in flight inserts a row with
\* a fresh id and the fields of its body P and returns that row; a Get on
\* the returned id that is the next request returns the same entity.
C1_CriarDepoisObter ==
  /\ [](\A r \in Reqs :
          ( /\ op[r] = "obter" /\ pc[r] = "finished"
            /\ hist.sozinho /\ hist.ultimo # Nenhum
            /\ produto_id[r] = hist.ultimo.id )
          => resposta[r] = Ok(hist.ultimo))
  /\ [][\A r \in Reqs : hist.sozinho =>
          /\ Comeca(r, "criar") =>
               /\ produto'[r].id \notin IdsDe(produtos)
               /\ produto'[r].id \in Ids
               /\ produtos' = produtos \cup {Linha(produto'[r].id, dados'[r])}
          /\ (op[r] = "criar" /\ pc[r] = "committed" /\ Anda(r)) =>
               resposta'[r] = Ok(Linha(produto[r].id, dados[r]))]_vars

C1_Witness ==
  \E r \in Reqs :
    /\ op[r] = "obter" /\ pc[r] = "finished"
    /\ hist.sozinho /\ hist.ultimo # Nenhum
    /\ produto_id[r] = hist.ultimo.id
    /\ resposta[r].status = 200

\* C2: the commit of a Delete leaves no row with its id and answers the
\* acknowledgment; an id without a row gets one only by the commit of a
\* Create; a Get or a Delete on an id without a row answers 404.
C2_DeletarRemove ==
  [][\A r \in Reqs :
       /\ CommitDeletar(r) =>
            /\ produto[r].id \notin IdsDe(produtos')
            /\ resposta'[r] = Resposta(200, Nenhum, {}, Deletado)
       /\ \A i \in Ids :
            (i \notin IdsDe(produtos) /\ i \in IdsDe(produtos'))
              => \E q \in Reqs : Comeca(q, "criar")
       /\ ( /\ Comeca(r, "obter") \/ Comeca(r, "deletar")
            /\ produto_id'[r] \notin IdsDe(produtos) )
            => resposta'[r] = Erro404]_vars

C2_Witness ==
  \E r, q \in Reqs :
    /\ op[r] = "deletar" /\ pc[r] = "finished" /\ resposta[r].status = 200
    /\ op[q] \in {"obter", "deletar"} /\ pc[q] = "finished"
    /\ produto_id[q] = produto_id[r]
    /\ resposta[q] = Erro404

\* C3 as stated: the commit of an Update with body Q on a row leaves the row
\* with its id and exactly the three values of Q, and the Update returns
\* that entity.
C3_Original ==
  [][\A r \in Reqs :
       /\ CommitAtualizar(r) =>
            Primeiro(produtos', produto[r].id) = Linha(produto[r].id, dados[r])
       /\ (op[r] = "atualizar" /\ pc[r] = "committed" /\ Anda(r)) =>
            resposta'[r] = Ok(Linha(produto[r].id, dados[r]))]_vars

\* C4: an Update whose lookup finds no row answers 404 and changes no row,
\* neither in that step nor in any later step of the request.
C4_AtualizarAusente ==
  [][\A r \in Reqs :
       /\ (Comeca(r, "atualizar") /\ produto_id'[r] \notin IdsDe(produtos)) =>
            /\ resposta'[r] = Erro404
            /\ pc'[r] = "finished"
            /\ produtos' = produtos
       /\ ( /\ op[r] = "atualizar" /\ pc[r] = "finished"
            /\ resposta[r].status = 404 /\ Anda(r) ) =>
            produtos' = produtos]_vars

C4_Witness ==
  \E r \in Reqs :
    /\ op[r] = "atualizar" /\ pc[r] = "finished"
    /\ resposta[r] = Erro404
    /\ produtos # {}
    /\ produto_id[r] \notin IdsDe(produtos)

\* C5: a Get answers 404 "Produto não encontrado" exactly when the table
\* has no row with the id asked for, and otherwise the row of that id.
C5_ObterNaoEncontrado ==
  [][\A r \in Reqs : Comeca(r, "obter") =>
       IF produto_id'[r] \in IdsDe(produtos)
         THEN /\ resposta'[r].status = 200
              /\ resposta'[r].entidade \in produtos
              /\ resposta'[r].entidade.id = produto_id'[r]
         ELSE resposta'[r] = Resposta(404, Nenhum, {}, NaoEncontrado)]_vars

C5_Witness ==
  \E r, q \in Reqs :
    /\ op[r] = "obter" /\ pc[r] = "finished" /\ resposta[r].status = 404
    /\ op[q] = "obter" /\ pc[q] = "finished" /\ resposta[q].status = 200

\* C6: a List returns exactly the rows of the table; when no Delete has
\* committed since N Creates returned, it has at least N entities and
\* among them every id those Creates returned.
C6_ListarTudo ==
  [][\A r \in Reqs : Comeca(r, "listar") =>
       /\ resposta'[r].status = 200
       /\ resposta'[r].lista = produtos
       /\ hist.sozinho =>
            /\ hist.criados \subseteq IdsDe(resposta'[r].lista)
            /\ Cardinality(resposta'[r].lista) >= hist.nCriados]_vars

C6_Witness ==
  \E r \in Reqs :
    /\ op[r] = "listar" /\ pc[r] = "finished"
    /\ hist.sozinho /\ hist.nCriados >= 2
    /\ hist.criados \subseteq IdsDe(resposta[r].lista)

\* C7: a request being served holds one open session, a request that is
\* over holds none, and the engine has as many open sessions as requests
\* being served.
C7_SessaoFechada ==
  /\ \A r \in Reqs : EmCurso(r) <=> db[r] = "open"
  /\ abertas = Cardinality({r \in Reqs : EmCurso(r)})

\* one request ended and its session is closed while another has left its
\* handler by an unhandled failure
C7_Witness ==
  \E r, q \in Reqs :
    /\ ~EmCurso(r) /\ db[r] = "closed"
    /\ pc[q] = "finished" /\ resposta[q].status = 500

\* C8 as stated: when the commit of an Update finds the row changed since
\* its lookup (another Update committed in between), the row it leaves
\* holds the values of a single body, those it found or its own, and it is
\* its own body, the last committed.
C8_Original ==
  [][\A r \in Reqs :
       ( /\ CommitAtualizar(r)
         /\ produto[r].id \in IdsDe(produtos)
         /\ Primeiro(produtos, produto[r].id) # produto[r] ) =>
         LET antes  == DadosDe(Primeiro(produtos, produto[r].id))
             depois == DadosDe(Primeiro(produtos', produto[r].id))
         IN /\ depois \in {antes, dados[r]}
            /\ depois = dados[r]]_vars

\* C9: every row has an id and the three data columns with values, the
\* ids of the rows are pairwise distinct, and the commit of an Update
\* leaves the ids of the table as they were.
C9_IdsEstaveis ==
  /\ [](/\ \A l \in produtos :
             /\ l.id \in Ids
             /\ l.nome \in Nomes /\ l.preco \in Precos /\ l.estoque \in Estoques
        /\ Cardinality(IdsDe(produtos)) = Cardinality(produtos))
  /\ [][\A r \in Reqs : CommitAtualizar(r) =>
          IdsDe(produtos') = IdsDe(produtos)]_vars

C9_Witness ==
  /\ Cardinality(produtos) = 2
  /\ \E r \in Reqs :
       /\ op[r] = "atualizar" /\ pc[r] = "committed"
       /\ Primeiro(produtos, produto[r].id) = Linha(produto[r].id, dados[r])

\* C10: a step of an Update whose row is no longer in the table (it was
\* deleted after the lookup) does not put a row of that id back, and when
\* the step ends the handler it does not answer 200.
C10_AtualizarAposDeletar ==
  [][\A r \in Reqs :
       ( /\ op[r] = "atualizar" /\ pc[r] \in {"found", "committed"}
         /\ Anda(r)
         /\ produto[r].id \notin IdsDe(produtos) ) =>
         /\ produto[r].id \notin IdsDe(produtos')
         /\ pc'[r] = "finished" => resposta'[r].status # 200]_vars

C10_Witness ==
  \E r, q \in Reqs :
    /\ op[r] = "atualizar" /\ pc[r] = "finished" /\ resposta[r].status = 500
    /\ produto_id[r] \notin IdsDe(produtos)
    /\ ~EmCurso(q) /\ db[q] = "closed"

=============================================================================
